---- MODULE Spec2Model ----
(***************************************************************************)
(* Issue / return ledger of the lab-materials inventory.                   *)
(*                                                                         *)
(* Two implementations of the ledger live in the repository:               *)
(*   - models.py  TransactionModel.create_issue / add_return /             *)
(*                _find_open_transaction, ComponentModel.get_by_id         *)
(*                (SQL statements executed on a pymysql connection);       *)
(*   - app.py     add_transaction / edit_transaction / edit_component      *)
(*                (Flask handlers over an SQLAlchemy session).             *)
(* Both work on the tables `components` and `transactions` of              *)
(* database.py.  The timestamp columns date / last_updated are not         *)
(* modelled; issue_date is a logical clock that ticks on every insert.     *)
(***************************************************************************)
EXTENDS Integers, Sequences, FiniteSets, TLC

(* ------------------------------ bounds -------------------------------- *)
\* rows the transactions table may hold (guards the INSERT)
MaxEntries == 2
\* cap on qty_issued of one row (guards the issue onto an open row)
MaxIssued == 3
\* cap on the length of a notes text, in tokens
MaxNotes == 4
\* operations one concurrent request process runs
MaxOps == 1
MaxParOps == 2

(* ------------------------------ values -------------------------------- *)
\* Python None (an absent form field / argument)
None == "<None>"
\* SQL NULL in a VARCHAR column (the driver maps None to NULL and back)
NULL == None
\* SQL NULL in the INT column transactions.lab_id (AUTO_INCREMENT ids are >= 1)
NULLID == 0

\* rows of the components table, and one id that has no row
Comps == {1, 2}
CompIds == Comps \cup {3}
\* components.quantity of the two rows before the first request
InitStock == <<2, 1>>

\* request values
Labs == {"1"}
Campuses == {"", "A"}
\* the <<component id, campus>> pairs of the requests served one at a time
Targets == {<<1, "">>, <<1, "A">>, <<2, "">>, <<3, "">>}
Persons == {"p"}
Purposes == {"u"}
Qtys == 0 .. 2
\* the quantities of the requests of SpecQty: negative, zero and positive
AnyQtys == (0 - 1) .. 2
\* the <<component id, campus>> pairs of the requests of SpecQty
QtyTargets == {<<1, "">>, <<3, "">>}
RawNotes == {<<>>, <<"n">>}

Issued == "Issued"
PartiallyReturned == "Partially Returned"
Completed == "Completed"
\* variant: the lookup accepts every status
OpenStatuses_All == {Issued, PartiallyReturned, Completed}

OpenStatuses == {Issued, PartiallyReturned}

VARIABLES
    components,   \* components.quantity, by component id
    entries,      \* the transactions table: a sequence of rows, id = index
    clock,        \* logical clock behind issue_date
    result,       \* outcome reported by the last request
    detail,       \* the quantity that outcome reports (available / pending)
    q0,           \* components.quantity when the ledger was empty
    sumIssued,    \* per component, total quantity of the successful issues
    sumReturned,  \* per component, total quantity of the successful returns
    procs         \* the concurrent request processes (SpecConc only)

vars == <<components, entries, clock, result, detail, q0, sumIssued, sumReturned, procs>>

(* ------------------------ Python / SQL helpers ------------------------ *)
\* Python truthiness of a raw string value (None and "" are falsy)
Truthy(v) == v # None /\ v # ""

\* Python truthiness of a notes text (a sequence of tokens; "" is <<>>)
NotesGiven(notes) == notes # <<>>

\* int(lab_id) for the lab ids of the request forms
IntOf(s) == IF s = "1" THEN 1 ELSE IF s = "2" THEN 2 ELSE NULLID

\* lab_val = int(lab_id) if lab_id else None            (models.py 470, 523, 639)
LabVal(lab_id) == IF Truthy(lab_id) THEN IntOf(lab_id) ELSE NULLID

\* variant: the campus is compared and stored as given
CampusVal_AsGiven(campus) == campus

\* campus_val = campus or None                          (models.py 471, 524, 640)
CampusVal(campus) == IF Truthy(campus) THEN campus ELSE NULL

\* SQL `col = %s`: never true when either side is NULL
SqlEq(col, val, null) == col # null /\ val # null /\ col = val

\* variant: the comparison written without its IS NULL branch
NullSafeEq_Plain(col, val, null) == SqlEq(col, val, null)

\* SQL `(col = %s OR (col IS NULL AND %s IS NULL))`
NullSafeEq(col, val, null) == SqlEq(col, val, null) \/ (col = null /\ val = null)

\* variant: an unknown id yields an empty row instead of None
get_by_id_Default(comps, component_id) ==
    <<[_id |-> component_id, quantity |-> IF component_id \in DOMAIN comps THEN comps[component_id] ELSE 0]>>

(* ----------------------- ComponentModel.get_by_id --------------------- *)
\* fetchone(): <<row>> with the component row as a dict, or <<>> for None
get_by_id(comps, component_id) ==
    IF component_id \in DOMAIN comps
    THEN << [_id |-> component_id, quantity |-> comps[component_id]] >>
    ELSE << >>

(* --------------- TransactionModel._find_open_transaction -------------- *)
\* variant: the WHERE clause without its status condition
OpenMatches_AnyStatus(ents, comp_id, lab_id, campus, person_name, purpose) ==
    LET lab_val == LabVal(lab_id)
        campus_val == CampusVal(campus)
    IN { i \in DOMAIN ents :
            /\ ents[i].component_id = comp_id
            /\ NullSafeEq(ents[i].lab_id, lab_val, NULLID)
            /\ NullSafeEq(ents[i].campus, campus_val, NULL)
            /\ ents[i].person_name = person_name
            /\ ents[i].purpose = purpose }

\* ids of the rows the WHERE clause selects
OpenMatches(ents, comp_id, lab_id, campus, person_name, purpose) ==
    LET lab_val == LabVal(lab_id)
        campus_val == CampusVal(campus)
    IN { i \in DOMAIN ents :
            /\ ents[i].component_id = comp_id
            /\ NullSafeEq(ents[i].lab_id, lab_val, NULLID)
            /\ NullSafeEq(ents[i].campus, campus_val, NULL)
            /\ ents[i].person_name = person_name
            /\ ents[i].purpose = purpose
            /\ ents[i].status \in OpenStatuses }

\* ORDER BY issue_date DESC LIMIT 1: the ids fetchone() may return; {} is None
find_open_transaction(ents, comp_id, lab_id, campus, person_name, purpose) ==
    LET m == OpenMatches(ents, comp_id, lab_id, campus, person_name, purpose)
    IN { i \in m : \A j \in m : ents[j].issue_date <= ents[i].issue_date }

(* ------------------- TransactionModel.create_issue -------------------- *)
\* variant: the stock check off by one
InsufficientStock_OffByOne(qty, current_stock) == qty > current_stock + 1

\* `if qty > current_stock: raise ValueError`                    (517-520)
InsufficientStock(qty, current_stock) == qty > current_stock

\* variant: the issue adds to the stock
IssueQuantityAfter_Added(current_stock, qty) == current_stock + qty

\* variant: the message reports the requested quantity
InsufficientStockAvailable_Requested(qty, current_stock) == qty

\* f"Cannot issue {qty} units. Only {current_stock} available in stock.":
\* the available quantity the message reports                    (518-520)
InsufficientStockAvailable(qty, current_stock) == current_stock

\* quantity_after = current_stock - qty                              (522)
IssueQuantityAfter(current_stock, qty) == current_stock - qty

\* status of the row an issue is added to                        (534-538)
\* variant: the issue recomputes the status from the pending quantity alone
IssueStatus_FromPending(qty_returned, pending) ==
    IF pending <= 0 THEN Completed ELSE PartiallyReturned

\* variant: an issue always sets the status Issued
IssueStatus_AlwaysIssued(qty_returned, pending) == Issued

IssueStatus(qty_returned, pending) ==
    IF qty_returned = 0 THEN Issued
    ELSE IF pending <= 0 THEN Completed ELSE PartiallyReturned

\* variant: the issue always writes the notes it was given
IssueNotes_Supplied(notes, existing_notes) == notes

\* notes or existing.get("notes", "")                                (567)
IssueNotes(notes, existing_notes) ==
    IF NotesGiven(notes) THEN notes ELSE existing_notes

\* variant: the UPDATE of the issue without its WHERE clause
IssueUpdate_EveryRow(ents, id, existing, qty, notes, current_stock) ==
    [i \in DOMAIN ents |->
        [ents[i] EXCEPT !.qty_issued = existing.qty_issued + qty,
                        !.pending_qty = existing.qty_issued + qty - existing.qty_returned,
                        !.status = IssueStatus(existing.qty_returned, existing.qty_issued + qty - existing.qty_returned),
                        !.quantity_before = current_stock,
                        !.quantity_after = IssueQuantityAfter(current_stock, qty),
                        !.last_action = "issue",
                        !.transaction_quantity = qty,
                        !.notes = IssueNotes(notes, existing.notes)]]

\* variant: the issue overwrites qty_issued instead of adding to it
IssueUpdate_Overwrite(ents, id, existing, qty, notes, current_stock) ==
    [ents EXCEPT ![id] =
        [@ EXCEPT !.qty_issued = qty,
                  !.pending_qty = qty - existing.qty_returned,
                  !.status = IF existing.qty_returned = 0 THEN Issued
                             ELSE IF qty - existing.qty_returned <= 0
                                  THEN Completed ELSE PartiallyReturned,
                  !.quantity_before = current_stock,
                  !.quantity_after = current_stock - qty,
                  !.last_action = "issue",
                  !.transaction_quantity = qty]]

\* UPDATE transactions SET ... WHERE id = existing["id"]         (530-570)
\* `existing` is the row as the lookup fetched it, `id` its id
IssueUpdate(ents, id, existing, qty, notes, current_stock) ==
    LET new_issued == existing.qty_issued + qty
        qty_returned == existing.qty_returned
        pending == new_issued - qty_returned
    IN [ents EXCEPT ![id] =
            [@ EXCEPT !.qty_issued = new_issued,
                      !.pending_qty = pending,
                      !.status = IssueStatus(qty_returned, pending),
                      !.quantity_before = current_stock,
                      !.quantity_after = IssueQuantityAfter(current_stock, qty),
                      !.last_action = "issue",
                      !.transaction_quantity = qty,
                      !.notes = IssueNotes(notes, existing.notes)]]

\* variant: the new row starts with nothing pending
IssueRow_NothingPending(comp_id, lab_oid, campus, person_name, purpose, qty, notes, current_stock, now) ==
    [component_id |-> comp_id,
     lab_id |-> lab_oid,
     campus |-> campus,
     person_name |-> person_name,
     purpose |-> purpose,
     qty_issued |-> qty,
     qty_returned |-> 0,
     pending_qty |-> 0,
     status |-> Issued,
     issue_date |-> now,
     quantity_before |-> current_stock,
     quantity_after |-> current_stock - qty,
     transaction_quantity |-> qty,
     last_action |-> "issue",
     notes |-> notes]

\* the row of INSERT INTO transactions ... VALUES ...            (571-609)
IssueRow(comp_id, lab_oid, campus, person_name, purpose, qty, notes, current_stock, now) ==
    [component_id |-> comp_id,
     lab_id |-> lab_oid,
     campus |-> campus,
     person_name |-> person_name,
     purpose |-> purpose,
     qty_issued |-> qty,
     qty_returned |-> 0,
     pending_qty |-> qty,
     status |-> Issued,
     issue_date |-> now,
     quantity_before |-> current_stock,
     quantity_after |-> IssueQuantityAfter(current_stock, qty),
     transaction_quantity |-> qty,
     last_action |-> "issue",
     notes |-> notes]

IssueInsert(ents, comp_id, lab_oid, campus, person_name, purpose, qty, notes, current_stock, now) ==
    Append(ents, IssueRow(comp_id, lab_oid, campus, person_name, purpose, qty,
                          notes, current_stock, now))

\* variant: the UPDATE of the stock without its WHERE clause
StockWrite_EveryRow(comps, comp_id, quantity_after) ==
    [c \in DOMAIN comps |-> quantity_after]

\* UPDATE components SET quantity = quantity_after WHERE id = ...
\*                                            (611-620 and 706-715)
StockWrite(comps, comp_id, quantity_after) ==
    [comps EXCEPT ![comp_id] = quantity_after]

(* -------------------- TransactionModel.add_return --------------------- *)
\* pending = qty_issued - qty_returned                           (652-654)
Pending(existing) == existing.qty_issued - existing.qty_returned

\* `if pending <= 0: raise ValueError`                           (656-657)
NothingPending(pending) == pending <= 0

\* `if qty > pending: raise ValueError`                          (659-662)
ExceedsPending(qty, pending) == qty > pending

\* variant: the message reports the requested quantity
ExceedsPendingReported_Requested(qty, pending) == qty

\* f"Return quantity ({qty}) cannot exceed pending quantity ({pending}).":
\* the pending quantity the message reports                      (660-662)
ExceedsPendingReported(qty, pending) == pending

\* variant: Completed only below zero
ReturnStatus_Strict(new_pending) ==
    IF new_pending < 0 THEN Completed ELSE PartiallyReturned

\* status = "Completed" if new_pending <= 0 else "Partially Returned" (666)
ReturnStatus(new_pending) ==
    IF new_pending <= 0 THEN Completed ELSE PartiallyReturned

\* variant: the return leaves the stock as it was
ReturnQuantityAfter_Same(current_stock, qty) == current_stock

\* quantity_after = current_stock + qty                              (668)
ReturnQuantityAfter(current_stock, qty) == current_stock + qty

\* variant: the return line is put before the existing notes
ReturnNotes_Prepend(existing_notes, notes) ==
    (IF NotesGiven(notes) THEN <<"Return: ">> \o notes \o <<"\n">> ELSE <<>>)
        \o existing_notes

\* variant: the return line replaces the existing notes
ReturnNotes_Overwrite(existing_notes, notes) ==
    IF NotesGiven(notes) THEN <<"Return: ">> \o notes ELSE existing_notes

\* (existing.get("notes") or "") + (f"\nReturn: {notes}" if notes else "")
\*                                                               (670-672)
ReturnNotes(existing_notes, notes) ==
    existing_notes
        \o (IF NotesGiven(notes) THEN <<"\n", "Return: ">> \o notes ELSE <<>>)

\* variant: a return records the stock after the return as quantity_before
ReturnUpdate_BeforeIsAfter(ents, id, existing, qty, notes, current_stock) ==
    [ents EXCEPT ![id] =
        [@ EXCEPT !.qty_returned = existing.qty_returned + qty,
                  !.pending_qty = existing.qty_issued - existing.qty_returned - qty,
                  !.status = IF existing.qty_issued - existing.qty_returned - qty <= 0
                             THEN Completed ELSE PartiallyReturned,
                  !.quantity_before = current_stock + qty,
                  !.quantity_after = current_stock + qty,
                  !.last_action = "return",
                  !.transaction_quantity = qty]]

\* variant: the return leaves pending_qty as it was
ReturnUpdate_StalePending(ents, id, existing, qty, notes, current_stock) ==
    [ents EXCEPT ![id] =
        [@ EXCEPT !.qty_returned = existing.qty_returned + qty,
                  !.status = IF existing.qty_issued - existing.qty_returned - qty <= 0
                             THEN Completed ELSE PartiallyReturned,
                  !.quantity_before = current_stock,
                  !.quantity_after = current_stock + qty,
                  !.last_action = "return",
                  !.transaction_quantity = qty]]

\* UPDATE transactions SET ... WHERE id = existing["id"]         (664-704)
ReturnUpdate(ents, id, existing, qty, notes, current_stock) ==
    LET qty_issued == existing.qty_issued
        new_returned == existing.qty_returned + qty
        new_pending == qty_issued - new_returned
    IN [ents EXCEPT ![id] =
            [@ EXCEPT !.qty_returned = new_returned,
                      !.pending_qty = new_pending,
                      !.status = ReturnStatus(new_pending),
                      !.quantity_before = current_stock,
                      !.quantity_after = ReturnQuantityAfter(current_stock, qty),
                      !.last_action = "return",
                      !.transaction_quantity = qty,
                      !.notes = ReturnNotes(existing.notes, notes)]]

(* ------------------------------ initial state ------------------------- *)
Init ==
    /\ components = InitStock
    /\ entries = << >>
    /\ clock = 1
    /\ result = "none"
    /\ detail = 0
    /\ q0 = components
    /\ sumIssued = [c \in Comps |-> 0]
    /\ sumReturned = [c \in Comps |-> 0]
    /\ procs = << >>

\* a request that reports r with the quantity d and writes nothing
RejectWith(r, d) ==
    /\ result' = r
    /\ detail' = d
    /\ UNCHANGED <<components, entries, clock, q0, sumIssued, sumReturned, procs>>

\* a request that reports r and writes nothing
Reject(r) == RejectWith(r, 0)

\* a request that commits the tables ents / comps
Commit(ents, comps, comp_id, issued, returned) ==
    /\ entries' = ents
    /\ components' = comps
    /\ clock' = IF Len(ents) > Len(entries) THEN clock + 1 ELSE clock
    /\ result' = "ok"
    /\ detail' = 0
    /\ sumIssued' = [sumIssued EXCEPT ![comp_id] = @ + issued]
    /\ sumReturned' = [sumReturned EXCEPT ![comp_id] = @ + returned]
    /\ UNCHANGED <<q0, procs>>

(* --------- Issue / Return: one request served by TransactionModel ----- *)
\* variant: zero passes the quantity check
InvalidQuantity_Negative(qty) == qty < 0

\* `if qty <= 0`: the quantity check made before the ledger is called
\*                                                      (app.py 547)
InvalidQuantity(qty) == qty <= 0

\* create_issue run to its end on the tables ents / comps        (500-620)
create_issue(component, lab_id, campus, person_name, qty, purpose, notes) ==
    LET current_stock == component.quantity
        comp_id == component._id
        lab_oid == LabVal(lab_id)
        campus_val == CampusVal(campus)
        found == find_open_transaction(entries, comp_id, lab_id, campus_val,
                                       person_name, purpose)
    IN IF InsufficientStock(qty, current_stock)
       THEN RejectWith("InsufficientStock", InsufficientStockAvailable(qty, current_stock))
       ELSE \/ /\ found = {}
               /\ Len(entries) < MaxEntries
               /\ Commit(IssueInsert(entries, comp_id, lab_oid, campus_val,
                                     person_name, purpose, qty, notes,
                                     current_stock, clock),
                         StockWrite(components, comp_id,
                                    IssueQuantityAfter(current_stock, qty)),
                         comp_id, qty, 0)
            \/ \E id \in found :
               /\ entries[id].qty_issued + qty <= MaxIssued
               /\ Commit(IssueUpdate(entries, id, entries[id], qty, notes,
                                     current_stock),
                         StockWrite(components, comp_id,
                                    IssueQuantityAfter(current_stock, qty)),
                         comp_id, qty, 0)

\* add_return run to its end on the tables ents / comps          (623-715)
add_return(component, lab_id, campus, person_name, qty, purpose, notes) ==
    LET current_stock == component.quantity
        comp_id == component._id
        campus_val == CampusVal(campus)
        found == find_open_transaction(entries, comp_id, lab_id, campus_val,
                                       person_name, purpose)
    IN IF found = {}
       THEN Reject("NoMatchingTransaction")
       ELSE \E id \in found :
            LET existing == entries[id]
                pending == Pending(existing)
            IN IF NothingPending(pending) THEN Reject("NothingPending")
               ELSE IF ExceedsPending(qty, pending)
               THEN RejectWith("ExceedsPending", ExceedsPendingReported(qty, pending))
               ELSE /\ Len(ReturnNotes(existing.notes, notes)) <= MaxNotes
                    /\ Commit(ReturnUpdate(entries, id, existing, qty, notes,
                                           current_stock),
                              StockWrite(components, comp_id,
                                         ReturnQuantityAfter(current_stock, qty)),
                              comp_id, 0, qty)

Issue(component_id, lab_id, campus, person_name, purpose, qty, notes) ==
    LET component == get_by_id(components, component_id)
    IN IF InvalidQuantity(qty) THEN Reject("InvalidQuantity")
       ELSE IF component = << >> THEN Reject("ComponentNotFound")
       ELSE create_issue(component[1], lab_id, campus, person_name, qty,
                         purpose, notes)

Return(component_id, lab_id, campus, person_name, purpose, qty, notes) ==
    LET component == get_by_id(components, component_id)
    IN IF InvalidQuantity(qty) THEN Reject("InvalidQuantity")
       ELSE IF component = << >> THEN Reject("ComponentNotFound")
       ELSE add_return(component[1], lab_id, campus, person_name, qty,
                       purpose, notes)

(* ------------------ app.py: the SQLAlchemy handlers ------------------- *)
\* app.py imports no name `datetime` (its imports are lines 1-11), so
\* evaluating datetime.now(IST) at 624, 694 and 773 raises NameError
DatetimeImported == FALSE

\* Transaction.query.filter_by(component_id=..., lab_id=..., campus=...,
\* person_name=..., purpose=..., status in open).first(): the ids it may
\* return; a None argument compiles to `IS NULL`          (599-606, 650-657)
AppFindOpen(ents, component_id, lab_id, campus, person_name, purpose) ==
    { i \in DOMAIN ents :
        /\ ents[i].component_id = component_id
        /\ SqlEq(ents[i].lab_id, IntOf(lab_id), NULLID)
        /\ IF campus = None THEN ents[i].campus = NULL
           ELSE SqlEq(ents[i].campus, campus, NULL)
        /\ ents[i].person_name = person_name
        /\ ents[i].purpose = purpose
        /\ ents[i].status \in OpenStatuses }

\* `if not (lab_id and component_id and person_name and purpose)`    (559)
MissingFields(lab_id, person_name, purpose) ==
    ~ (Truthy(lab_id) /\ Truthy(person_name) /\ Truthy(purpose))

\* variant: the rollback restores the component row only
SessionEnd_KeepEntries(raised, ents, comps, sess_ents, sess_comps) ==
    IF raised THEN [entries |-> sess_ents, components |-> comps]
    ELSE [entries |-> sess_ents, components |-> sess_comps]

\* the tables after db.session.commit(), or after the db.session.rollback()
\* of `except Exception`                             (700-706, 779-786)
SessionEnd(raised, ents, comps, sess_ents, sess_comps) ==
    IF raised THEN [entries |-> ents, components |-> comps]
    ELSE [entries |-> sess_ents, components |-> sess_comps]

\* end of a handler's try block: the session holds sess_ents / sess_comps
Finish(raised, sess_ents, sess_comps, comp_id, issued, returned) ==
    LET end == SessionEnd(raised, entries, components, sess_ents, sess_comps)
    IN IF raised
       THEN /\ result' = "Error"
            /\ detail' = 0
            /\ entries' = end.entries
            /\ components' = end.components
            /\ UNCHANGED <<clock, q0, sumIssued, sumReturned, procs>>
       ELSE Commit(end.entries, end.components, comp_id, issued, returned)

\* POST /transactions/add                                        (518-714)
\* commit_fails: db.session.commit() raises (the storage failed)
add_transaction(transaction_type, component_id, lab_id, campus_raw, person_name, purpose, qty, notes) ==
    LET campus == CampusVal(campus_raw)
        component == get_by_id(components, component_id)
    IN
    IF InvalidQuantity(qty) THEN Reject("InvalidQuantity")
    ELSE IF MissingFields(lab_id, person_name, purpose)
    THEN Reject("MissingFields")
    ELSE IF component = << >> THEN Reject("ComponentNotFound")
    ELSE
    LET current_stock == component[1].quantity
        found == AppFindOpen(entries, component_id, lab_id, campus,
                             person_name, purpose)
    IN
    IF transaction_type = "issue"
    THEN IF InsufficientStock(qty, current_stock)
         THEN RejectWith("InsufficientStock", InsufficientStockAvailable(qty, current_stock))
         ELSE \/ /\ found = {}
                 /\ Len(entries) < MaxEntries
                 /\ \E commit_fails \in BOOLEAN : Finish(commit_fails,
                           IssueInsert(entries, component_id, IntOf(lab_id),
                                       campus, person_name, purpose, qty,
                                       notes, current_stock, clock),
                           StockWrite(components, component_id,
                                      IssueQuantityAfter(current_stock, qty)),
                           component_id, qty, 0)
              \/ \E id \in found :
                 /\ entries[id].qty_issued + qty <= MaxIssued
                 /\ \E commit_fails \in BOOLEAN : Finish(~ DatetimeImported \/ commit_fails,
                           IssueUpdate(entries, id, entries[id], qty, notes,
                                       current_stock),
                           IF DatetimeImported
                           THEN StockWrite(components, component_id,
                                     IssueQuantityAfter(current_stock, qty))
                           ELSE components,
                           component_id, qty, 0)
    ELSE IF found = {}
         THEN Reject("NoMatchingTransaction")
         ELSE \E id \in found :
              LET existing == entries[id]
                  pending == Pending(existing)
              IN IF NothingPending(pending) THEN Reject("NothingPending")
                 ELSE IF ExceedsPending(qty, pending)
                 THEN RejectWith("ExceedsPending", ExceedsPendingReported(qty, pending))
                 ELSE /\ Len(ReturnNotes(existing.notes, notes)) <= MaxNotes
                      /\ \E commit_fails \in BOOLEAN : Finish(~ DatetimeImported \/ commit_fails,
                                ReturnUpdate(entries, id, existing, qty,
                                             notes, current_stock),
                                IF DatetimeImported
                                THEN StockWrite(components, component_id,
                                       ReturnQuantityAfter(current_stock, qty))
                                ELSE components,
                                component_id, 0, qty)

\* pending = txn.pending_qty or (qty_issued - qty_returned)          (735)
EditPending(txn) ==
    IF txn.pending_qty # 0 THEN txn.pending_qty
    ELSE txn.qty_issued - txn.qty_returned

\* POST /transactions/<id>/edit: a return against the row with that id
\*                                                               (726-786)
edit_transaction(transaction_id, return_now, notes) ==
    IF transaction_id \notin DOMAIN entries THEN Reject("NotFound")
    ELSE
    LET txn == entries[transaction_id]
        pending == EditPending(txn)
        current_stock == components[txn.component_id]
    IN IF InvalidQuantity(return_now) THEN Reject("InvalidQuantity")
       ELSE IF NothingPending(pending) THEN Reject("NothingPending")
       ELSE IF ExceedsPending(return_now, pending)
       THEN RejectWith("ExceedsPending", ExceedsPendingReported(return_now, pending))
       ELSE /\ Len(ReturnNotes(txn.notes, notes)) <= MaxNotes
            /\ \E commit_fails \in BOOLEAN : Finish(~ DatetimeImported \/ commit_fails,
                      ReturnUpdate(entries, transaction_id, txn, return_now,
                                   notes, current_stock),
                      IF DatetimeImported
                      THEN StockWrite(components, txn.component_id,
                               ReturnQuantityAfter(current_stock, return_now))
                      ELSE components,
                      txn.component_id, 0, return_now)

\* one Issue request with its fields drawn from the given sets; Ts holds
\* the <<component id, campus>> pairs
IssueStep(Ts, Ls, Ps, Us, Qs, Ns) ==
    \E t \in Ts, l \in Ls, p \in Ps, u \in Us, q \in Qs, n \in Ns :
        Issue(t[1], l, t[2], p, u, q, n)

\* one Return request with its fields drawn from the given sets
ReturnStep(Ts, Ls, Ps, Us, Qs, Ns) ==
    \E t \in Ts, l \in Ls, p \in Ps, u \in Us, q \in Qs, n \in Ns :
        Return(t[1], l, t[2], p, u, q, n)

\* one POST /transactions/add with its fields drawn from the given sets
AddTransactionStep(Ts, Ls, Ps, Us, Qs, Ns) ==
    \E ty \in {"issue", "return"}, t \in Ts, l \in Ls, p \in Ps, u \in Us,
       q \in Qs, n \in Ns :
        add_transaction(ty, t[1], l, t[2], p, u, q, n)

\* one POST /transactions/<id>/edit
EditTransactionStep(Qs, Ns) ==
    \E id \in 1 .. (MaxEntries + 1), q \in Qs, n \in Ns :
        edit_transaction(id, q, n)

(* --------------------- sequential specification ----------------------- *)
\* requests served one at a time; notes are left empty
SeqIssue == IssueStep(Targets, Labs, Persons, Purposes, Qtys, {<<>>})
SeqReturn == ReturnStep(Targets, Labs, Persons, Purposes, Qtys, {<<>>})
SeqAddTransaction ==
    AddTransactionStep(Targets, Labs, Persons, Purposes, Qtys, {<<>>})
SeqEditTransaction == EditTransactionStep(Qtys, {<<>>})

Next == SeqIssue \/ SeqReturn \/ SeqAddTransaction \/ SeqEditTransaction

Spec == Init /\ [][Next]_vars

(* ------------- sequential specification, any quantity ----------------- *)
\* requests served one at a time whose quantity may be negative
QtyIssue == IssueStep(QtyTargets, Labs, Persons, Purposes, AnyQtys, {<<>>})
QtyReturn == ReturnStep(QtyTargets, Labs, Persons, Purposes, AnyQtys, {<<>>})
QtyAddTransaction ==
    AddTransactionStep(QtyTargets, Labs, Persons, Purposes, AnyQtys, {<<>>})
QtyEditTransaction == EditTransactionStep(AnyQtys, {<<>>})

NextQty == QtyIssue \/ QtyReturn \/ QtyAddTransaction \/ QtyEditTransaction

SpecQty == Init /\ [][NextQty]_vars

(* ------ requests whose lab and campus are absent, empty or given ------- *)
CtxCampuses == {None, "", "A"}
CtxNoLabs == {None, ""}
CtxQtys == {1}
\* the <<lab, campus>> pairs of the requests: a lab with each campus, and no
\* lab with no campus
CtxForms == { <<"1", k>> : k \in CtxCampuses } \cup { <<l, None>> : l \in CtxNoLabs }

CtxIssue == \E f \in CtxForms : IssueStep({<<1, f[2]>>}, {f[1]}, Persons, Purposes, CtxQtys, {<<>>})
CtxReturn == \E f \in CtxForms : ReturnStep({<<1, f[2]>>}, {f[1]}, Persons, Purposes, CtxQtys, {<<>>})
CtxAddTransaction == \E f \in CtxForms : AddTransactionStep({<<1, f[2]>>}, {f[1]}, Persons, Purposes, CtxQtys, {<<>>})

NextCtx == CtxIssue \/ CtxReturn \/ CtxAddTransaction

SpecCtx == Init /\ [][NextCtx]_vars

(* ------------------- requests that carry notes ------------------------ *)
\* the notes of a request are drawn from RawNotes: none, or a text
NotesTargets == {<<1, "">>}
NotesQtys == {1}

NotesIssue == IssueStep(NotesTargets, Labs, Persons, Purposes, NotesQtys, RawNotes)
NotesReturn == ReturnStep(NotesTargets, Labs, Persons, Purposes, NotesQtys, RawNotes)
NotesAddTransaction == AddTransactionStep(NotesTargets, Labs, Persons, Purposes, NotesQtys, RawNotes)
NotesEditTransaction == EditTransactionStep(NotesQtys, RawNotes)

NextNotes == NotesIssue \/ NotesReturn \/ NotesAddTransaction \/ NotesEditTransaction

SpecNotes == Init /\ [][NextNotes]_vars

(* ---------------- component editing: edit_component ------------------- *)
\* the quantities the edit form may carry, and the ids it may name
EditQtys == {0, 2}
EditIds == {1, 3}

\* ComponentModel.update: UPDATE components SET ..., quantity=%s, ...
\* WHERE id=%s; a missing id updates no row                 (models.py 303-344)
ComponentUpdate(comps, component_id, quantity) ==
    IF component_id \in DOMAIN comps
    THEN [comps EXCEPT ![component_id] = quantity]
    ELSE comps

\* POST /components/<id>/edit                               (app.py 419-456)
\* required: name, category_id and lab_id were all filled in
edit_component(component_id, required, quantity) ==
    IF component_id \notin DOMAIN components THEN Reject("NotFound")
    ELSE IF ~ required THEN Reject("MissingFields")
    ELSE /\ components' = ComponentUpdate(components, component_id, quantity)
         /\ result' = "updated"
         /\ detail' = 0
         /\ UNCHANGED <<entries, clock, q0, sumIssued, sumReturned, procs>>

EditIssue == IssueStep(NotesTargets, Labs, Persons, Purposes, NotesQtys, {<<>>})
EditReturn == ReturnStep(NotesTargets, Labs, Persons, Purposes, NotesQtys, {<<>>})
EditAddTransaction == AddTransactionStep(NotesTargets, Labs, Persons, Purposes, NotesQtys, {<<>>})
EditComponent ==
    \E component_id \in EditIds, required \in BOOLEAN, quantity \in EditQtys :
        edit_component(component_id, required, quantity)

NextEdit == EditIssue \/ EditReturn \/ EditAddTransaction \/ EditComponent

SpecEdit == Init /\ [][NextEdit]_vars

(* --------------------- concurrent specification ----------------------- *)
(* Requests served by concurrent workers on the models.py ledger.  The    *)
(* code takes no lock and asks for no isolation (no SELECT ... FOR UPDATE, *)
(* no LOCK TABLES, no version check), so each SQL statement is one step.   *)
Procs == {1, 2}
ConcQtys == {1, 2}

IdleProc ==
    [pc |-> "idle", op |-> "none", comp_id |-> 0, campus |-> None,
     person_name |-> "", purpose |-> "", qty |-> 0, stock |-> 0,
     existing |-> << >>, now |-> 0, res |-> "none", ops |-> 0,
     base |-> [rows |-> << >>, stock |-> 0]]

InitConc ==
    /\ components = InitStock
    /\ entries = << >>
    /\ clock = 1
    /\ result = "none"
    /\ detail = 0
    /\ q0 = components
    /\ sumIssued = [c \in Comps |-> 0]
    /\ sumReturned = [c \in Comps |-> 0]
    /\ procs = [p \in Procs |-> IdleProc]

\* the request of worker p arrives for a component of Cs and the component
\* row is read: ComponentModel.get_by_id.  base is kept with the request
\* for the properties only: no step reads it.  A worker serves at most
\* max requests.
ReadRequest(p, Cs, base, max) ==
    \E op \in {"issue", "return"}, c \in Cs, k \in Campuses,
       n \in Persons, u \in Purposes, q \in ConcQtys :
        /\ procs[p].pc = "idle"
        /\ procs[p].ops < max
        /\ procs' = [procs EXCEPT ![p] =
              [IdleProc EXCEPT !.pc = "lookup", !.op = op, !.comp_id = c,
                   !.campus = k, !.person_name = n, !.purpose = u, !.qty = q,
                   !.stock = get_by_id(components, c)[1].quantity,
                   !.ops = procs[p].ops + 1,
                   !.base = base]]
        /\ UNCHANGED <<components, entries, clock, result, detail, q0,
                       sumIssued, sumReturned>>

\* a request for any component
ReadComponent(p) == ReadRequest(p, Comps, IdleProc.base, MaxOps)

\* the request ends with outcome r
ProcEnd(p, r) == [procs EXCEPT ![p].pc = "idle", ![p].res = r]

\* create_issue 514-528 / add_return 637-662: the checks on the row read
\* before, then the SELECT of _find_open_transaction
FindOpen(p) ==
    LET me == procs[p]
        found == find_open_transaction(entries, me.comp_id, "1",
                     CampusVal(me.campus), me.person_name, me.purpose)
    IN
    /\ me.pc = "lookup"
    /\ UNCHANGED <<components, entries, clock, result, detail, q0,
                   sumIssued, sumReturned>>
    /\ IF me.op = "issue"
       THEN IF InsufficientStock(me.qty, me.stock)
            THEN procs' = ProcEnd(p, "InsufficientStock")
            ELSE \/ /\ found = {}
                    /\ procs' = [procs EXCEPT ![p].pc = "entry",
                                              ![p].now = clock]
                 \/ \E id \in found :
                      procs' = [procs EXCEPT ![p].pc = "entry",
                                   ![p].existing = <<id, entries[id]>>,
                                   ![p].now = clock]
       ELSE IF found = {}
            THEN procs' = ProcEnd(p, "NoMatchingTransaction")
            ELSE \E id \in found :
                 LET pending == Pending(entries[id])
                 IN IF NothingPending(pending)
                    THEN procs' = ProcEnd(p, "NothingPending")
                    ELSE IF ExceedsPending(me.qty, pending)
                    THEN procs' = ProcEnd(p, "ExceedsPending")
                    ELSE procs' = [procs EXCEPT ![p].pc = "entry",
                                      ![p].existing = <<id, entries[id]>>,
                                      ![p].now = clock]

\* the UPDATE or INSERT of the transactions row     (540-609 and 674-704)
WriteEntry(p) ==
    LET me == procs[p]
    IN
    /\ me.pc = "entry"
    /\ IF me.op = "issue"
       THEN IF me.existing = << >>
            THEN /\ Len(entries) < MaxEntries
                 /\ entries' = IssueInsert(entries, me.comp_id, LabVal("1"),
                                   CampusVal(me.campus), me.person_name,
                                   me.purpose, me.qty, <<>>, me.stock, me.now)
                 /\ clock' = clock + 1
            ELSE /\ me.existing[2].qty_issued + me.qty <= MaxIssued
                 /\ entries' = IssueUpdate(entries, me.existing[1],
                                   me.existing[2], me.qty, <<>>, me.stock)
                 /\ clock' = clock
       ELSE /\ entries' = ReturnUpdate(entries, me.existing[1],
                              me.existing[2], me.qty, <<>>, me.stock)
            /\ clock' = clock
    /\ procs' = [procs EXCEPT ![p].pc = "stock"]
    /\ UNCHANGED <<components, result, detail, q0, sumIssued, sumReturned>>

\* UPDATE components SET quantity = quantity_after  (611-620 and 706-715)
WriteStock(p) ==
    LET me == procs[p]
    IN
    /\ me.pc = "stock"
    /\ components' = StockWrite(components, me.comp_id,
                         IF me.op = "issue"
                         THEN IssueQuantityAfter(me.stock, me.qty)
                         ELSE ReturnQuantityAfter(me.stock, me.qty))
    /\ sumIssued' = [sumIssued EXCEPT
                        ![me.comp_id] = @ + IF me.op = "issue" THEN me.qty ELSE 0]
    /\ sumReturned' = [sumReturned EXCEPT
                        ![me.comp_id] = @ + IF me.op = "return" THEN me.qty ELSE 0]
    /\ procs' = ProcEnd(p, "ok")
    /\ UNCHANGED <<entries, clock, result, detail, q0>>

ConcRead == \E p \in Procs : ReadComponent(p)
ConcFind == \E p \in Procs : FindOpen(p)
ConcEntry == \E p \in Procs : WriteEntry(p)
ConcStock == \E p \in Procs : WriteStock(p)

NextConc == ConcRead \/ ConcFind \/ ConcEntry \/ ConcStock

SpecConc == InitConc /\ [][NextConc]_vars

(* ------------- concurrent requests on different components ------------ *)
\* worker p serves the requests for component p only
ParComp(p) == p

\* the rows of component c in id order, and its quantity
RowsOf(ents, c) == SelectSeq(ents, LAMBDA e : e.component_id = c)
Snapshot(c) == [rows |-> RowsOf(entries, c), stock |-> components[c]]

ParRead == \E p \in Procs : ReadRequest(p, {ParComp(p)}, Snapshot(ParComp(p)), MaxParOps)

NextPar == ParRead \/ ConcFind \/ ConcEntry \/ ConcStock

SpecPar == InitConc /\ [][NextPar]_vars

(* ------------------------------ properties --------------------------- *)
RECURSIVE PendingUpTo(_, _, _)
\* sum of pending_qty over the rows 1..n of component c
PendingUpTo(ents, c, n) ==
    IF n = 0 THEN 0
    ELSE (IF ents[n].component_id = c THEN ents[n].pending_qty ELSE 0)
         + PendingUpTo(ents, c, n - 1)

SumPending(c) == PendingUpTo(entries, c, Len(entries))

\* the context a row is stored under
ContextOf(e) == <<e.component_id, e.lab_id, e.campus, e.person_name, e.purpose>>

OpenIds == { i \in DOMAIN entries : entries[i].status # Completed }

\* C1: after any sequence of accepted and rejected issues and returns served
\* one at a time, every component's quantity is its initial stock minus the
\* quantities issued plus the quantities returned; equivalently quantity plus
\* the pending quantities of the component's rows is the initial stock.
C1_Conservation ==
    \A c \in Comps :
        /\ components[c] = q0[c] - sumIssued[c] + sumReturned[c]
        /\ components[c] + SumPending(c) = q0[c]

C1_Witness ==
    /\ sumIssued[1] >= 2
    /\ sumReturned[1] >= 1
    /\ components[1] < q0[1]
    /\ result \notin {"ok", "none"}

\* C2: two concurrent issues on one component never oversell: when both are
\* accepted the component's quantity is the initial stock minus both
\* quantities, and it is not negative.
C2_NoOversell ==
    \A c \in Comps :
        (/\ \A p \in Procs : /\ procs[p].pc = "idle"
                             /\ procs[p].op = "issue"
                             /\ procs[p].comp_id = c
                             /\ procs[p].res = "ok")
        => /\ components[c] = q0[c] - procs[1].qty - procs[2].qty
           /\ components[c] >= 0

\* C3: every row has pending_qty = qty_issued - qty_returned.
C3_PendingIsDifference ==
    \A i \in DOMAIN entries :
        entries[i].pending_qty = entries[i].qty_issued - entries[i].qty_returned

C3_Witness ==
    \E i \in DOMAIN entries :
        /\ entries[i].qty_issued = 3
        /\ entries[i].qty_returned = 1
        /\ entries[i].last_action = "issue"

\* C4: the status of a row is fixed by its quantities: Issued exactly when
\* nothing is returned and something is pending, Partially Returned exactly
\* when something is returned and something is pending, Completed exactly
\* when nothing is pending; rows with equal quantities have equal statuses.
C4_StatusFromQuantities ==
    /\ \A i \in DOMAIN entries :
        LET e == entries[i]
        IN /\ (e.status = Issued) <=> (e.qty_returned = 0 /\ e.pending_qty > 0)
           /\ (e.status = PartiallyReturned)
                  <=> (e.qty_returned > 0 /\ e.pending_qty > 0)
           /\ (e.status = Completed) <=> (e.pending_qty <= 0)
    /\ \A i, j \in DOMAIN entries :
        (/\ entries[i].qty_issued = entries[j].qty_issued
         /\ entries[i].qty_returned = entries[j].qty_returned)
        => entries[i].status = entries[j].status

C4_Witness ==
    \E i, j \in DOMAIN entries :
        /\ entries[i].status = Completed
        /\ entries[j].status = PartiallyReturned
        /\ entries[j].last_action = "return"

\* C5: with requests served one at a time, no context has two rows whose
\* status is not Completed.
C5_OneOpenPerContext ==
    \A i, j \in OpenIds :
        ContextOf(entries[i]) = ContextOf(entries[j]) => i = j

C5_Witness ==
    \E i, j \in DOMAIN entries :
        /\ i # j
        /\ ContextOf(entries[i]) = ContextOf(entries[j])
        /\ entries[i].status = Completed
        /\ entries[j].status # Completed

\* C6: two concurrent issues for one context that has no open row never
\* leave two open rows for that context.
C6_ConcurrentOneOpen ==
    \A i, j \in OpenIds :
        ContextOf(entries[i]) = ContextOf(entries[j]) => i = j

C8_Monotonic ==
    [][/\ Len(entries') >= Len(entries)
       /\ \A i \in DOMAIN entries :
            /\ entries'[i].qty_issued >= entries[i].qty_issued
            /\ entries'[i].qty_returned >= entries[i].qty_returned]_vars

C8_Witness ==
    \E i \in DOMAIN entries :
        /\ entries[i].qty_issued = 2
        /\ entries[i].qty_returned = 2

\* C9: starting from a non-negative stock, no request writes a negative
\* quantity: components.quantity >= 0 in every reachable state.
C9_StockNonNegative == \A c \in Comps : components[c] >= 0

C9_Witness ==
    /\ components[1] = 0
    /\ result = "InsufficientStock"

\* C10: an issue or return whose quantity is not positive is rejected with
\* InvalidQuantity, whatever its other fields are, and changes no row and no
\* component quantity.
C10_InvalidQuantityRejected ==
    [][\A t \in QtyTargets, l \in Labs, p \in Persons, u \in Purposes,
          q \in AnyQtys :
          (/\ q <= 0
           /\ \/ Issue(t[1], l, t[2], p, u, q, <<>>)
              \/ Return(t[1], l, t[2], p, u, q, <<>>)
              \/ add_transaction("issue", t[1], l, t[2], p, u, q, <<>>)
              \/ add_transaction("return", t[1], l, t[2], p, u, q, <<>>))
          => /\ result' = "InvalidQuantity"
             /\ UNCHANGED <<entries, components>>]_vars

C10_Witness ==
    /\ result = "InvalidQuantity"
    /\ \E i \in DOMAIN entries : entries[i].status # Completed

\* C11: an issue of more than the component's current quantity is rejected
\* with InsufficientStock, the rejection reports that current quantity, and
\* no component quantity and no row changes (none added, none modified).
C11_InsufficientStockRejected ==
    [][\A t \in QtyTargets, l \in Labs, p \in Persons, u \in Purposes, q \in AnyQtys :
          (/\ t[1] \in Comps
           /\ q > 0
           /\ q > components[t[1]]
           /\ \/ Issue(t[1], l, t[2], p, u, q, <<>>)
              \/ add_transaction("issue", t[1], l, t[2], p, u, q, <<>>))
          => /\ result' = "InsufficientStock"
             /\ detail' = components[t[1]]
             /\ UNCHANGED <<entries, components>>]_vars

C11_Witness ==
    /\ result = "InsufficientStock"
    /\ detail = 1
    /\ components[1] = 1
    /\ \E i \in DOMAIN entries : entries[i].component_id = 1

\* the rows of the context a request names that are not Completed
OpenInContext(comp_id, lab_id, campus, person_name, purpose) ==
    { i \in DOMAIN entries :
        /\ ContextOf(entries[i]) = <<comp_id, LabVal(lab_id), CampusVal(campus), person_name, purpose>>
        /\ entries[i].status # Completed }

\* the rows of the context a request names, whatever their status
InContext(comp_id, lab_id, campus, person_name, purpose) ==
    { i \in DOMAIN entries :
        ContextOf(entries[i]) = <<comp_id, LabVal(lab_id), CampusVal(campus), person_name, purpose>> }

\* C12: a return on a context that has no open row (no row at all, or only
\* Completed rows) is rejected with NoMatchingTransaction and changes no row
\* and no component quantity.
C12_NoMatchingRejected ==
    [][\A f \in CtxForms, p \in Persons, u \in Purposes, q \in CtxQtys :
          (/\ OpenInContext(1, f[1], f[2], p, u) = {}
           /\ \/ Return(1, f[1], f[2], p, u, q, <<>>)
              \/ /\ ~ MissingFields(f[1], p, u)
                 /\ add_transaction("return", 1, f[1], f[2], p, u, q, <<>>))
          => /\ result' = "NoMatchingTransaction"
             /\ UNCHANGED <<entries, components>>]_vars

C12_Witness ==
    /\ result = "NoMatchingTransaction"
    /\ \E i, j \in DOMAIN entries :
         /\ entries[i].status = Completed
         /\ entries[j].status # Completed
         /\ ContextOf(entries[i]) # ContextOf(entries[j])

\* C13: a return of more than the pending quantity (qty_issued -
\* qty_returned) of the context's open row, by context or by row id, is
\* rejected with ExceedsPending, the rejection reports that pending quantity,
\* and no row and no component quantity changes.
C13_ExceedsPendingRejected ==
    [][/\ \A t \in QtyTargets, l \in Labs, p \in Persons, u \in Purposes, q \in AnyQtys :
            LET open == OpenInContext(t[1], l, t[2], p, u)
            IN (/\ q > 0
                /\ t[1] \in Comps
                /\ open # {}
                /\ \A i \in open : q > entries[i].qty_issued - entries[i].qty_returned
                /\ \/ Return(t[1], l, t[2], p, u, q, <<>>)
                   \/ add_transaction("return", t[1], l, t[2], p, u, q, <<>>))
               => /\ result' = "ExceedsPending"
                  /\ \E i \in open : detail' = entries[i].qty_issued - entries[i].qty_returned
                  /\ UNCHANGED <<entries, components>>
       /\ \A id \in DOMAIN entries, q \in AnyQtys :
            (/\ q > 0
             /\ entries[id].status # Completed
             /\ q > entries[id].qty_issued - entries[id].qty_returned
             /\ edit_transaction(id, q, <<>>))
            => /\ result' = "ExceedsPending"
               /\ detail' = entries[id].qty_issued - entries[id].qty_returned
               /\ UNCHANGED <<entries, components>>]_vars

C13_Witness ==
    /\ result = "ExceedsPending"
    /\ detail = 1
    /\ \E i \in DOMAIN entries :
         /\ entries[i].qty_issued - entries[i].qty_returned = 1
         /\ entries[i].status = PartiallyReturned

\* C14: an issue checks the quantity, then the component, then the stock, and
\* reports the first check that fails: on a component id that does not exist
\* a quantity <= 0 is rejected with InvalidQuantity and a positive quantity
\* with ComponentNotFound (never InsufficientStock); no row and no component
\* quantity changes.
C14_FirstFailureReported ==
    [][\A t \in QtyTargets, l \in Labs, p \in Persons, u \in Purposes, q \in AnyQtys :
          (/\ t[1] \notin Comps
           /\ \/ Issue(t[1], l, t[2], p, u, q, <<>>)
              \/ add_transaction("issue", t[1], l, t[2], p, u, q, <<>>))
          => /\ result' = IF q <= 0 THEN "InvalidQuantity" ELSE "ComponentNotFound"
             /\ UNCHANGED <<entries, components>>]_vars

C14_Witness ==
    /\ result = "ComponentNotFound"
    /\ \E i \in DOMAIN entries : entries[i].status = Issued
    /\ components[1] < InitStock[1]

\* C15: a Completed row is never modified again, neither by a request on its
\* context nor by a return on its id; an accepted issue on a context whose
\* rows are all Completed adds a separate row in status Issued, and a return
\* against the Completed row is rejected.
C15_CompletedIsFinal ==
    [][/\ \A i \in DOMAIN entries :
            entries[i].status = Completed
            => i \in DOMAIN entries' /\ entries'[i] = entries[i]
       /\ \A t \in QtyTargets, l \in Labs, p \in Persons, u \in Purposes, q \in AnyQtys :
            (/\ InContext(t[1], l, t[2], p, u) # {}
             /\ OpenInContext(t[1], l, t[2], p, u) = {})
            => /\ (/\ \/ Issue(t[1], l, t[2], p, u, q, <<>>)
                      \/ add_transaction("issue", t[1], l, t[2], p, u, q, <<>>)
                   /\ result' = "ok")
                  => /\ Len(entries') = Len(entries) + 1
                     /\ entries'[Len(entries')].status = Issued
                     /\ entries'[Len(entries')].qty_issued = q
                     /\ ContextOf(entries'[Len(entries')]) \in
                          { ContextOf(entries[i]) : i \in InContext(t[1], l, t[2], p, u) }
               /\ (\/ Return(t[1], l, t[2], p, u, q, <<>>)
                   \/ add_transaction("return", t[1], l, t[2], p, u, q, <<>>))
                  => /\ result' \in {"InvalidQuantity", "NoMatchingTransaction"}
                     /\ UNCHANGED <<entries, components>>
       /\ \A id \in DOMAIN entries, q \in AnyQtys :
            (entries[id].status = Completed /\ edit_transaction(id, q, <<>>))
            => /\ result' \in {"InvalidQuantity", "NothingPending"}
               /\ UNCHANGED <<entries, components>>]_vars

C15_Witness ==
    /\ result = "NothingPending"
    /\ \E i, j \in DOMAIN entries :
         /\ i < j
         /\ ContextOf(entries[i]) = ContextOf(entries[j])
         /\ entries[i].status = Completed
         /\ entries[j].status = Issued
         /\ entries[j].last_action = "issue"

\* C16: an accepted issue of qty on a context that has no open row adds
\* exactly one row, with qty_issued = qty, qty_returned = 0, pending_qty =
\* qty, status Issued and last_action issue, leaves every other row as it
\* was and lowers the component's quantity by exactly qty.
C16_IssueCreatesEntry ==
    [][\A t \in QtyTargets, l \in Labs, p \in Persons, u \in Purposes, q \in AnyQtys :
          (/\ t[1] \in Comps
           /\ OpenInContext(t[1], l, t[2], p, u) = {}
           /\ \/ Issue(t[1], l, t[2], p, u, q, <<>>)
              \/ add_transaction("issue", t[1], l, t[2], p, u, q, <<>>)
           /\ result' = "ok")
          => /\ Len(entries') = Len(entries) + 1
             /\ \A i \in DOMAIN entries : entries'[i] = entries[i]
             /\ LET e == entries'[Len(entries')]
                IN /\ ContextOf(e) = <<t[1], LabVal(l), CampusVal(t[2]), p, u>>
                   /\ e.qty_issued = q
                   /\ e.qty_returned = 0
                   /\ e.pending_qty = q
                   /\ e.status = Issued
                   /\ e.last_action = "issue"
             /\ components' = [components EXCEPT ![t[1]] = @ - q]]_vars

C16_Witness ==
    /\ result = "ok"
    /\ Len(entries) = 2
    /\ entries[1].status = Completed
    /\ entries[2].qty_issued = 2
    /\ entries[2].pending_qty = 2
    /\ entries[2].status = Issued
    /\ components[1] = 0

\* C17: an accepted issue of qty on a context that has an open row changes
\* that row in place and adds no row: qty_issued grows by qty, qty_returned
\* stays, pending_qty is the new qty_issued - qty_returned, the status is
\* Issued while nothing was returned and Partially Returned otherwise,
\* last_action is issue, and the component's quantity drops by qty.
C17_IssueUpdatesEntry ==
    [][\A t \in QtyTargets, l \in Labs, p \in Persons, u \in Purposes, q \in AnyQtys :
          \A id \in OpenInContext(t[1], l, t[2], p, u) :
          (/\ t[1] \in Comps
           /\ \/ Issue(t[1], l, t[2], p, u, q, <<>>)
              \/ add_transaction("issue", t[1], l, t[2], p, u, q, <<>>)
           /\ result' = "ok")
          => /\ Len(entries') = Len(entries)
             /\ \A i \in DOMAIN entries : i # id => entries'[i] = entries[i]
             /\ entries'[id].qty_issued = entries[id].qty_issued + q
             /\ entries'[id].qty_returned = entries[id].qty_returned
             /\ entries'[id].pending_qty = entries[id].qty_issued + q - entries[id].qty_returned
             /\ entries'[id].status = IF entries[id].qty_returned = 0 THEN Issued ELSE PartiallyReturned
             /\ entries'[id].last_action = "issue"
             /\ ContextOf(entries'[id]) = ContextOf(entries[id])
             /\ components' = [components EXCEPT ![t[1]] = @ - q]]_vars

C17_Witness ==
    /\ result = "ok"
    /\ Len(entries) = 1
    /\ entries[1].qty_issued = 3
    /\ entries[1].qty_returned = 1
    /\ entries[1].pending_qty = 2
    /\ entries[1].status = PartiallyReturned
    /\ entries[1].last_action = "issue"
    /\ entries[1].transaction_quantity = 1

\* C18: an accepted return of qty, by context or by row id, raises the row's
\* qty_returned by qty, leaves qty_issued as it was, sets the status
\* Completed when the new pending quantity is 0 and Partially Returned
\* otherwise, sets last_action return, changes no other row and raises the
\* component's quantity by qty.
C18_ReturnUpdatesEntry ==
    [][/\ \A t \in QtyTargets, l \in Labs, p \in Persons, u \in Purposes, q \in AnyQtys :
          \A id \in OpenInContext(t[1], l, t[2], p, u) :
          (/\ t[1] \in Comps
           /\ \/ Return(t[1], l, t[2], p, u, q, <<>>)
              \/ add_transaction("return", t[1], l, t[2], p, u, q, <<>>)
              \/ edit_transaction(id, q, <<>>)
           /\ result' = "ok")
          => /\ Len(entries') = Len(entries)
             /\ \A i \in DOMAIN entries : i # id => entries'[i] = entries[i]
             /\ entries'[id].qty_returned = entries[id].qty_returned + q
             /\ entries'[id].qty_issued = entries[id].qty_issued
             /\ entries'[id].pending_qty = entries[id].qty_issued - entries[id].qty_returned - q
             /\ entries'[id].status = IF entries[id].qty_issued - entries[id].qty_returned - q = 0
                                      THEN Completed ELSE PartiallyReturned
             /\ entries'[id].last_action = "return"
             /\ ContextOf(entries'[id]) = ContextOf(entries[id])
             /\ components' = [components EXCEPT ![t[1]] = @ + q]]_vars

C18_Witness ==
    /\ result = "ok"
    /\ \E i \in DOMAIN entries :
         /\ entries[i].qty_issued = 2
         /\ entries[i].qty_returned = 1
         /\ entries[i].status = PartiallyReturned
         /\ entries[i].last_action = "return"
         /\ components[entries[i].component_id] = InitStock[entries[i].component_id] - 1

\* C19: for every q with 0 < q <= the component's quantity, an issue of q on
\* a context that has no open row is accepted, and the return of q that
\* follows it on the same context is accepted too, leaves the row with
\* qty_issued = q, qty_returned = q, pending_qty = 0 and status Completed,
\* and puts the component's quantity back to its value before the issue;
\* this holds for the requests of models.py and for those of app.py.
C19_RoundTrip ==
    \A t \in QtyTargets, l \in Labs, p \in Persons, u \in Purposes, q \in AnyQtys :
        /\ (/\ t[1] \in Comps
            /\ 0 < q
            /\ q <= components[t[1]]
            /\ OpenInContext(t[1], l, t[2], p, u) = {}
            /\ Len(entries) < MaxEntries)
           => /\ ENABLED (/\ Issue(t[1], l, t[2], p, u, q, <<>>)
                          /\ result' = "ok")
              /\ ENABLED (/\ add_transaction("issue", t[1], l, t[2], p, u, q, <<>>)
                          /\ result' = "ok")
        /\ \A id \in OpenInContext(t[1], l, t[2], p, u) :
             \* the state an accepted Issue(q) on the fresh context has just left
             (/\ entries[id].last_action = "issue"
              /\ entries[id].qty_issued = q
              /\ entries[id].transaction_quantity = q
              /\ entries[id].qty_returned = 0
              /\ entries[id].quantity_after = components[t[1]])
             => /\ ENABLED (/\ Return(t[1], l, t[2], p, u, q, <<>>)
                            /\ result' = "ok"
                            /\ entries'[id].qty_issued = q
                            /\ entries'[id].qty_returned = q
                            /\ entries'[id].pending_qty = 0
                            /\ entries'[id].status = Completed
                            /\ components'[t[1]] = entries[id].quantity_before)
                /\ ENABLED (/\ add_transaction("return", t[1], l, t[2], p, u, q, <<>>)
                            /\ result' = "ok"
                            /\ entries'[id].qty_issued = q
                            /\ entries'[id].qty_returned = q
                            /\ entries'[id].pending_qty = 0
                            /\ entries'[id].status = Completed
                            /\ components'[t[1]] = entries[id].quantity_before)

\* an optional field of a request that is absent or the empty string
Blank(v) == v \in {None, ""}

\* the rows a request with the form f (<<lab, campus>>) of CtxForms must find:
\* open rows of component 1 whose lab and campus equal the request's, a
\* blank field of the request standing for NULL
OpenForForm(f, p, u) ==
    { i \in DOMAIN entries :
        /\ entries[i].status # Completed
        /\ entries[i].component_id = 1
        /\ entries[i].person_name = p
        /\ entries[i].purpose = u
        /\ entries[i].lab_id = (IF Blank(f[1]) THEN NULLID ELSE 1)
        /\ entries[i].campus = (IF Blank(f[2]) THEN NULL ELSE f[2]) }

\* an accepted issue or return of either implementation with the form f
AcceptedWithForm(f, p, u, q) ==
    /\ result' = "ok"
    /\ \/ Issue(1, f[1], f[2], p, u, q, <<>>)
       \/ Return(1, f[1], f[2], p, u, q, <<>>)
       \/ add_transaction("issue", 1, f[1], f[2], p, u, q, <<>>)
       \/ add_transaction("return", 1, f[1], f[2], p, u, q, <<>>)

\* C20 as stated: a request whose campus (or lab) is the empty string never
\* matches, and so never changes, an open row whose campus (or lab) is
\* absent.  (No row is ever stored with an empty-string lab or campus, so
\* the converse case has no row to match.)
C20_EmptyNeverMatchesAbsent ==
    [][\A f \in CtxForms, p \in Persons, u \in Purposes, q \in CtxQtys :
          \A i \in DOMAIN entries :
             (/\ \/ f[2] = "" /\ entries[i].campus = NULL
                 \/ f[1] = "" /\ entries[i].lab_id = NULLID
              /\ AcceptedWithForm(f, p, u, q))
             => entries'[i] = entries[i]]_vars

\* C20, amended: an empty-string lab or campus is treated as absent.  An
\* accepted request whose lab / campus is blank (absent or "") acts on the
\* open row of its context whose lab / campus is NULL and adds no row; a
\* request changes no row whose lab or campus differs from its own (a blank
\* field never matches a given value, nor the reverse); and a row it adds
\* stores NULL for a blank field, never the empty string.
C20_EmptyMatchesAbsent ==
    [][\A f \in CtxForms, p \in Persons, u \in Purposes, q \in CtxQtys :
          AcceptedWithForm(f, p, u, q)
          => LET open == OpenForForm(f, p, u)
             IN /\ \A i \in DOMAIN entries :
                     entries'[i] # entries[i] => i \in open
                /\ open # {}
                   => /\ Len(entries') = Len(entries)
                      /\ \E i \in open : entries'[i] # entries[i]
                /\ open = {}
                   => /\ Len(entries') = Len(entries) + 1
                      /\ entries'[Len(entries')].lab_id = (IF Blank(f[1]) THEN NULLID ELSE 1)
                      /\ entries'[Len(entries')].campus = (IF Blank(f[2]) THEN NULL ELSE f[2])]_vars

C20_Witness ==
    /\ result = "ok"
    /\ Len(entries) = 2
    /\ entries[1].lab_id = 1
    /\ entries[1].campus = NULL
    /\ entries[1].qty_issued = 2
    /\ entries[1].status = Completed
    /\ entries[2].lab_id = NULLID
    /\ entries[2].campus = NULL
    /\ entries[2].status = Issued

\* the text a is a prefix of the text b
IsPrefix(a, b) == Len(a) <= Len(b) /\ SubSeq(b, 1, Len(a)) = a

\* an accepted issue of either implementation that carries the notes n
AcceptedIssue(t, l, p, u, q, n) ==
    /\ result' = "ok"
    /\ \/ Issue(t[1], l, t[2], p, u, q, n)
       \/ add_transaction("issue", t[1], l, t[2], p, u, q, n)

\* an accepted return of either implementation that carries the notes n
AcceptedReturn(t, l, p, u, q, n) ==
    /\ result' = "ok"
    /\ \/ Return(t[1], l, t[2], p, u, q, n)
       \/ add_transaction("return", t[1], l, t[2], p, u, q, n)
       \/ \E id \in DOMAIN entries : edit_transaction(id, q, n)

\* C21 as stated: the notes of a row are an append-only log: from one state
\* to the next the notes a row had are a prefix of the notes it has.
C21_NotesAppendOnly ==
    [][\A i \in DOMAIN entries :
          /\ i \in DOMAIN entries'
          /\ IsPrefix(entries[i].notes, entries'[i].notes)]_vars

\* C21, amended: the notes are append-only under returns and under issues
\* that carry no notes: after each of these the notes a row had are a prefix
\* of the notes it has.  The only step that breaks the prefix is an issue
\* that carries notes, which sets the notes of the row it updates to the
\* notes supplied.
C21_NotesAppendOnlyExceptIssue ==
    [][/\ \A t \in NotesTargets, l \in Labs, p \in Persons, u \in Purposes, q \in NotesQtys, n \in RawNotes :
            (\/ AcceptedReturn(t, l, p, u, q, n)
             \/ ~ NotesGiven(n) /\ AcceptedIssue(t, l, p, u, q, n))
            => \A i \in DOMAIN entries : IsPrefix(entries[i].notes, entries'[i].notes)
       /\ \A i \in DOMAIN entries :
            \/ IsPrefix(entries[i].notes, entries'[i].notes)
            \/ /\ entries'[i].last_action = "issue"
               /\ entries'[i].qty_issued > entries[i].qty_issued
               /\ \E n \in RawNotes : NotesGiven(n) /\ entries'[i].notes = n]_vars

C21_Witness ==
    /\ result = "ok"
    /\ \E i \in DOMAIN entries :
         /\ entries[i].last_action = "issue"
         /\ entries[i].qty_issued = 3
         /\ entries[i].qty_returned = 1
         /\ entries[i].notes = <<"n">>

\* C22: an accepted issue on an existing open row sets the row's notes to
\* the notes supplied when these are non-empty and leaves the row's notes as
\* they were when the notes supplied are empty.
C22_IssueNotesReplace ==
    [][\A t \in NotesTargets, l \in Labs, p \in Persons, u \in Purposes, q \in NotesQtys, n \in RawNotes :
          \A id \in OpenInContext(t[1], l, t[2], p, u) :
             AcceptedIssue(t, l, p, u, q, n)
             => entries'[id].notes = IF n # <<>> THEN n ELSE entries[id].notes]_vars

C22_Witness ==
    /\ result = "ok"
    /\ \E i \in DOMAIN entries :
         /\ entries[i].last_action = "issue"
         /\ entries[i].qty_issued = 3
         /\ entries[i].qty_returned = 1
         /\ entries[i].notes = <<"\n", "Return: ", "n">>

\* C23: an accepted return that carries non-empty notes appends one new line
\* "Return: <notes>" after the row's existing notes, and an accepted return
\* with empty notes leaves the notes exactly as they were.
C23_ReturnNotesAppend ==
    [][\A t \in NotesTargets, l \in Labs, p \in Persons, u \in Purposes, q \in NotesQtys, n \in RawNotes :
          \A id \in OpenInContext(t[1], l, t[2], p, u) :
             (/\ result' = "ok"
              /\ \/ Return(t[1], l, t[2], p, u, q, n)
                 \/ add_transaction("return", t[1], l, t[2], p, u, q, n)
                 \/ edit_transaction(id, q, n))
             => entries'[id].notes =
                  IF n # <<>> THEN entries[id].notes \o <<"\n", "Return: ">> \o n
                  ELSE entries[id].notes]_vars

C23_Witness ==
    /\ result = "ok"
    /\ \E i \in DOMAIN entries :
         /\ entries[i].last_action = "return"
         /\ entries[i].status = Completed
         /\ entries[i].notes = <<"n", "\n", "Return: ", "n">>

\* C24: the quantity of a component that has ledger rows changes only
\* through an accepted issue or return: whenever it changes, the same step
\* adds or updates a row of that component whose quantity_before is the old
\* quantity and whose quantity_after is the new one.
C24_QuantityOnlyByLedger ==
    [][\A c \in Comps :
          (/\ components'[c] # components[c]
           /\ \E i \in DOMAIN entries : entries[i].component_id = c)
          => \E i \in DOMAIN entries' :
                /\ entries'[i].component_id = c
                /\ i \in DOMAIN entries => entries'[i] # entries[i]
                /\ entries'[i].quantity_before = components[c]
                /\ entries'[i].quantity_after = components'[c]]_vars

\* rows with their timestamp blanked: two runs are compared up to the time
\* of day at which they happened
Undated(rows) == [i \in DOMAIN rows |-> [rows[i] EXCEPT !.issue_date = 0]]

\* the request `me` served alone, start to end, on the rows and the quantity
\* of its component as they were when it arrived (me.base): the rows and the
\* quantity it leaves and the outcome it reports
ServedAlone(me) ==
    LET rows == me.base.rows
        stock == me.base.stock
        found == find_open_transaction(rows, me.comp_id, "1", CampusVal(me.campus), me.person_name, me.purpose)
        same(r) == [rows |-> rows, stock |-> stock, res |-> r]
    IN IF me.op = "issue"
       THEN IF InsufficientStock(me.qty, stock) THEN same("InsufficientStock")
            ELSE IF found = {}
            THEN [rows |-> IssueInsert(rows, me.comp_id, LabVal("1"), CampusVal(me.campus), me.person_name, me.purpose, me.qty, <<>>, stock, 0),
                  stock |-> IssueQuantityAfter(stock, me.qty),
                  res |-> "ok"]
            ELSE LET id == CHOOSE i \in found : TRUE
                 IN [rows |-> IssueUpdate(rows, id, rows[id], me.qty, <<>>, stock),
                     stock |-> IssueQuantityAfter(stock, me.qty),
                     res |-> "ok"]
       ELSE IF found = {} THEN same("NoMatchingTransaction")
            ELSE LET id == CHOOSE i \in found : TRUE
                     pending == Pending(rows[id])
                 IN IF NothingPending(pending) THEN same("NothingPending")
                    ELSE IF ExceedsPending(me.qty, pending) THEN same("ExceedsPending")
                    ELSE [rows |-> ReturnUpdate(rows, id, rows[id], me.qty, <<>>, stock),
                          stock |-> ReturnQuantityAfter(stock, me.qty),
                          res |-> "ok"]

\* C25: issues and returns on different components served concurrently do
\* not interfere.  Whenever a worker has finished a request, the rows and
\* the quantity of its component are those the request leaves when it is
\* served alone on what it found at its arrival, and it reports the same
\* outcome, however the steps of the other worker were interleaved with
\* its own; a component nobody has served yet is as it was at the start.
\* The final rows and quantities are therefore those of the requests run
\* one after the other, in either order.
C25_DifferentComponentsIndependent ==
    \A p \in Procs :
        procs[p].pc = "idle"
        => IF procs[p].ops = 0
           THEN /\ RowsOf(entries, ParComp(p)) = << >>
                /\ components[ParComp(p)] = InitStock[ParComp(p)]
           ELSE LET alone == ServedAlone(procs[p])
                IN /\ Undated(RowsOf(entries, ParComp(p))) = Undated(alone.rows)
                   /\ components[ParComp(p)] = alone.stock
                   /\ procs[p].res = alone.res

\* both workers are done: worker 1 after an issue and a return on component
\* 1, worker 2 after an issue on component 2, and the rows of the two
\* components alternate
C25_Witness ==
    /\ \A p \in Procs : procs[p].pc = "idle" /\ procs[p].res = "ok"
    /\ procs[1].ops = 2 /\ procs[1].op = "return"
    /\ procs[2].op = "issue"
    /\ Len(entries) = 2
    /\ entries[1].component_id = 2
    /\ entries[2].component_id = 1
    /\ entries[2].status = PartiallyReturned
    /\ components = <<1, 0>>

\* C26: every change one request makes to the status of an existing row is
\* an allowed transition.  A row whose qty_issued grew (an issue) keeps its
\* status, Issued or Partially Returned; a row whose qty_returned grew (a
\* return) was Issued or Partially Returned and becomes Partially Returned
\* or Completed; a row that was not touched keeps its status.  So no row
\* becomes Issued from another status, no issue produces Completed, and a
\* Completed row stays Completed.
C26_StatusTransitions ==
    [][\A i \in DOMAIN entries :
          /\ i \in DOMAIN entries'
          /\ LET old == entries[i].status
                 new == entries'[i].status
             IN /\ IF entries'[i].qty_issued > entries[i].qty_issued
                   THEN old \in {Issued, PartiallyReturned} /\ new = old
                   ELSE IF entries'[i].qty_returned > entries[i].qty_returned
                   THEN /\ old \in {Issued, PartiallyReturned}
                        /\ new \in {PartiallyReturned, Completed}
                   ELSE new = old
                /\ new = Issued => old = Issued
                /\ old = Completed => new = Completed]_vars

C26_Witness ==
    \E i, j \in DOMAIN entries :
        /\ entries[i].status = Completed
        /\ entries[j].status = PartiallyReturned
        /\ entries[j].last_action = "issue"
        /\ entries[j].qty_issued = 3

\* the rows a step added or changed
Touched == { i \in DOMAIN entries' : i \in DOMAIN entries => entries'[i] # entries[i] }

\* C27: after every accepted issue or return of qty the touched row records
\* quantity_before = the component's quantity just before the request and
\* quantity_after = quantity_before - qty (issue) or quantity_before + qty
\* (return), and the component's quantity equals that quantity_after.
C27_QuantityAudit ==
    [][\A t \in QtyTargets, l \in Labs, p \in Persons, u \in Purposes, q \in AnyQtys :
          /\ (/\ result' = "ok"
              /\ \/ Issue(t[1], l, t[2], p, u, q, <<>>)
                 \/ add_transaction("issue", t[1], l, t[2], p, u, q, <<>>))
             => /\ Touched # {}
                /\ \A i \in Touched :
                     /\ entries'[i].quantity_before = components[t[1]]
                     /\ entries'[i].quantity_after = components[t[1]] - q
                     /\ components'[t[1]] = entries'[i].quantity_after
          /\ (/\ result' = "ok"
              /\ \/ Return(t[1], l, t[2], p, u, q, <<>>)
                 \/ add_transaction("return", t[1], l, t[2], p, u, q, <<>>)
                 \/ \E id \in OpenInContext(t[1], l, t[2], p, u) : edit_transaction(id, q, <<>>))
             => /\ Touched # {}
                /\ \A i \in Touched :
                     /\ entries'[i].quantity_before = components[t[1]]
                     /\ entries'[i].quantity_after = components[t[1]] + q
                     /\ components'[t[1]] = entries'[i].quantity_after]_vars

C27_Witness ==
    /\ result = "ok"
    /\ \E i \in DOMAIN entries :
         /\ entries[i].last_action = "return"
         /\ entries[i].quantity_before = 0
         /\ entries[i].quantity_after = 1
         /\ entries[i].transaction_quantity = 1
         /\ components[entries[i].component_id] = 1

\* C28: in every reachable state every row has 0 <= qty_returned <=
\* qty_issued and a pending_qty that is not negative, and no component's
\* quantity exceeds its initial stock.
C28_ReturnedWithinIssued ==
    /\ \A i \in DOMAIN entries :
         /\ 0 <= entries[i].qty_returned
         /\ entries[i].qty_returned <= entries[i].qty_issued
         /\ entries[i].pending_qty >= 0
    /\ \A c \in Comps : components[c] <= q0[c]

\* the engine of models.py accepts the return of the whole pending quantity
\* of every open row on the row's context and completes the row
ClosableByEngine ==
    \A t \in QtyTargets, l \in Labs, p \in Persons, u \in Purposes :
        \A id \in OpenInContext(t[1], l, t[2], p, u) :
            ENABLED (/\ Return(t[1], l, t[2], p, u, entries[id].pending_qty, <<>>)
                     /\ result' = "ok"
                     /\ entries'[id].status = Completed)

\* C29: in every reachable state, whatever the component's quantity is, every
\* open row can be closed: a return of exactly its pending quantity on its
\* context is accepted and leaves the row Completed, through add_return of
\* models.py, through the return form of app.py and through edit_transaction.
C29_OpenEntryClosable ==
    /\ ClosableByEngine
    /\ \A t \in QtyTargets, l \in Labs, p \in Persons, u \in Purposes :
         \A id \in OpenInContext(t[1], l, t[2], p, u) :
             /\ ENABLED (/\ add_transaction("return", t[1], l, t[2], p, u, entries[id].pending_qty, <<>>)
                         /\ result' = "ok"
                         /\ entries'[id].status = Completed)
             /\ ENABLED (/\ edit_transaction(id, entries[id].pending_qty, <<>>)
                         /\ result' = "ok"
                         /\ entries'[id].status = Completed)

\* C30: an accepted issue or return adds or changes exactly one row, and a
\* changed row was open and keeps its id, its context and its issue_date;
\* every other row (of another context, or Completed in the same context) is
\* left as it was, no row is removed, and only the quantity of the touched
\* row's component changes.
C30_FrameEffect ==
    [][result' = "ok"
       => /\ Len(entries') >= Len(entries)
          /\ Len(entries') <= Len(entries) + 1
          /\ Cardinality(Touched) = 1
          /\ \A i \in DOMAIN entries : i \notin Touched => entries'[i] = entries[i]
          /\ \A i \in Touched :
               /\ i \in DOMAIN entries
                    => /\ entries[i].status # Completed
                       /\ ContextOf(entries'[i]) = ContextOf(entries[i])
                       /\ entries'[i].issue_date = entries[i].issue_date
               /\ i \notin DOMAIN entries => i = Len(entries) + 1
               /\ components'[entries'[i].component_id] = entries'[i].quantity_after
               /\ \A c \in Comps :
                    c # entries'[i].component_id => components'[c] = components[c]]_vars

\* a fresh issue has just opened a second row next to the Completed row of
\* the same context, and the other component has its initial stock
C30_Witness ==
    /\ result = "ok"
    /\ Len(entries) = 2
    /\ ContextOf(entries[1]) = ContextOf(entries[2])
    /\ entries[1].status = Completed
    /\ entries[1].last_action = "return"
    /\ entries[2].status = Issued
    /\ entries[2].issue_date > entries[1].issue_date
    /\ \E c \in Comps : c # entries[2].component_id /\ components[c] = q0[c]

====
